---- MODULE Spec2Model ----
(***************************************************************************)
(* Model of saas-platform/clients/cliente3/app.py: a Flask application     *)
(* with six GET routes and one catch-all error handler.                    *)
(*                                                                         *)
(* Time is counted in tenths of a second.  A worker (a thread of the       *)
(* server) accepts a request, dispatches it through the URL map to a view  *)
(* function, and writes one response.  The three view functions that block *)
(* (time.sleep, cpu_percent(interval=1)) are split at the blocking call;   *)
(* every other view is one step.                                           *)
(***************************************************************************)
EXTENDS Integers, Sequences, FiniteSets, TLC

\* ---- bounds of the model ------------------------------------------------
MaxRequests == 2
MaxTicks == 1
RandBits == 2

VARIABLES
    worker,    \* per worker: the request it is blocked on (id 0: none)
    last,      \* the response written by the latest step of a worker, if any
    nresp,     \* per request id: how many responses were written for it
    arrived,   \* number of requests accepted so far
    wall       \* the reading of the system's wall clock

vars == <<worker, last, nresp, arrived, wall>>

\* The development server started by app.run serves every request on a
\* thread of its own: worker i is the thread that serves request i.
Ids == 1..MaxRequests
Workers == Ids

\* ---- the environment's draws ---------------------------------------------
\* A range of draws or of sensor readings is represented by its two ends.
Sampled(lo, hi) == {lo, hi}

\* random.randint(a, b): an integer N with a <= N <= b.
randint(a, b) == Sampled(a, b)

\* random.uniform(a, b), in tenths of a second.
uniform(a, b) == Sampled(a, b)

\* random.random(): k / RandDenom for k in 0..RandDenom-1, i.e. [0, 1).
RandDenom == 2 ^ RandBits
random == 0..(RandDenom - 1)

\* ---- clocks --------------------------------------------------------------
DataSleepMin == 1
DataSleepMax == 5
SlowSleepMin == 10
SlowSleepMax == 30
CpuInterval == 10

\* The granularity at which the model lets time pass: one second.
ClockStep == CpuInterval

\* The latest reading of the wall clock the model follows.
MaxTime == MaxTicks * ClockStep

\* psutil.Process().create_time(): the wall-clock time of process creation.
create_time == 0

\* time.time() / datetime.now(): the wall clock.
time == wall

\* datetime.isoformat(): a textual rendering of the instant.
isoformat(t) == IF t < 0 THEN "T-" \o ToString(0 - t) ELSE "T+" \o ToString(t)

\* ---- what a view function hands back to Flask ---------------------------
NoBody == [f \in {} |-> ""]
Return(body) == [threw |-> FALSE, msg |-> "", body |-> body]
Raise(message) == [threw |-> TRUE, msg |-> message, body |-> NoBody]

\* ---- the view functions --------------------------------------------------
\* home() answering with another client's project identifier.
home_view_other(now) ==
    Return([message |-> "Hello from Cliente 3 - Flask App!",
            timestamp |-> isoformat(now),
            project |-> "cliente1"])

\* home(): no input but the wall clock.
home_view(now) ==
    Return([message |-> "Hello from Cliente 3 - Flask App!",
            timestamp |-> isoformat(now),
            project |-> "cliente3"])

\* health(): psutil.Process() may fail (sensorOk = FALSE); a fresh Process
\* object reports cpu_percent() 0.0 on its first call.
SensorError == "psutil.AccessDenied"
health_view(now, sensorOk, mem) ==
    IF ~sensorOk THEN Raise(SensorError)
    ELSE Return([status |-> "healthy",
                 uptime |-> now - create_time,
                 memory_percent |-> mem,
                 cpu_percent |-> 0,
                 timestamp |-> isoformat(now)])

\* get_data(), after its sleep: three draws, then the timestamp.
get_data_view(now, c, s, p) ==
    Return([customers |-> c, sales |-> s, profit |-> p,
            timestamp |-> isoformat(now)])

\* profit drawn with a digit too many in the upper end.
ProfitRange_wide == randint(1000, 100000)

\* The ranges get_data draws from.
CustomersRange == randint(100, 1000)
SalesRange == randint(50, 500)
ProfitRange == randint(1000, 10000)

\* slow_endpoint(), after its sleep.
slow_view(now) ==
    Return([message |-> "This was a slow request from Flask",
            timestamp |-> isoformat(now)])

\* error_endpoint() raising the message without the client's suffix.
error_view_short(r) ==
    IF 2 * r > RandDenom
    THEN Raise("Random error for testing")
    ELSE Return([message |-> "Success from Flask!"])

\* error_endpoint() testing r / RandDenom >= 0.5.
error_view_ge(r) ==
    IF 2 * r >= RandDenom
    THEN Raise("Random error for testing from Flask")
    ELSE Return([message |-> "Success from Flask!"])

\* error_endpoint(): r is the numerator of random.random(); the test is
\* r / RandDenom > 0.5.
error_view(r) ==
    IF 2 * r > RandDenom
    THEN Raise("Random error for testing from Flask")
    ELSE Return([message |-> "Success from Flask!"])

\* system_info(), after the one-second cpu sample.
system_view(now, sensorOk, cpu) ==
    IF ~sensorOk THEN Raise(SensorError)
    ELSE Return([cpu_percent |-> cpu,
                 memory |-> [total |-> 100, available |-> 50, percent |-> 50],
                 disk |-> [total |-> 100, used |-> 50, free |-> 50, percent |-> 50],
                 network |-> [bytes_sent |-> 0, bytes_recv |-> 0],
                 timestamp |-> isoformat(now)])

\* str() of the werkzeug routing exceptions.
NotFound ==
    "404 Not Found: The requested URL was not found on the server. If you entered the URL manually please check your spelling and try again."
MethodNotAllowed ==
    "405 Method Not Allowed: The method is not allowed for the requested URL."

\* handle_error answering 200 with the error body.
handle_error_ok(message) == [status |-> 200, body |-> [error |-> message]]

\* handle_error passing HTTP errors through with their own status.
handle_error_passthrough(message) ==
    [status |-> IF message = NotFound THEN 404
                ELSE IF message = MethodNotAllowed THEN 405 ELSE 500,
     body |-> [error |-> message]]

\* handle_error(error): jsonify({'error': str(error)}), 500.
handle_error(message) == [status |-> 500, body |-> [error |-> message]]

\* ---- Flask's dispatch ----------------------------------------------------
\* The URL map built by the app.route decorators: path -> view function.
url_map ==
    [p \in {"/", "/health", "/api/data", "/api/slow", "/api/error", "/api/system"} |->
        CASE p = "/" -> "home"
          [] p = "/health" -> "health"
          [] p = "/api/data" -> "get_data"
          [] p = "/api/slow" -> "slow_endpoint"
          [] p = "/api/error" -> "error_endpoint"
          [] p = "/api/system" -> "system_info"]

\* A rule declared without methods= answers GET, and Flask adds HEAD and
\* OPTIONS to it.
ViewMethods == {"GET", "HEAD"}
RuleMethods == ViewMethods \cup {"OPTIONS"}

\* The requests the model sends: the six paths and one unrouted path, under
\* the methods of a rule and one method no rule has.
Paths == DOMAIN url_map \cup {"/missing"}
Methods == RuleMethods \cup {"POST"}

\* Whether the request is dispatched to view function h.
Routed(r, h) ==
    /\ r.path \in DOMAIN url_map
    /\ url_map[r.path] = h
    /\ r.method \in ViewMethods

\* What the environment drew for one request: how long the view was to
\* block (dur), how long the worker was blocked (slept), and the numerator
\* of random.random() (draw; -1 when the view draws none).
Drawn(dur, slept, draw) == [dur |-> dur, slept |-> slept, draw |-> draw]
NoDraws == Drawn(0, 0, -1)

\* The response Flask builds from what the view handed back: 200 with the
\* returned body, or what the Exception handler makes of the error.
make_response(r, h, result, drawn) ==
    LET out == IF result.threw THEN handle_error(result.msg)
               ELSE [status |-> 200, body |-> result.body]
    IN [id |-> r.id, path |-> r.path, method |-> r.method, handler |-> h,
        threw |-> result.threw, msg |-> result.msg,
        status |-> out.status, body |-> out.body, drawn |-> drawn]

\* ---- state ---------------------------------------------------------------
Idle == [id |-> 0, path |-> "", method |-> "", dur |-> 0, slept |-> 0]
NoResponse ==
    [id |-> 0, path |-> "", method |-> "", handler |-> "", threw |-> FALSE,
     msg |-> "", status |-> 0, body |-> NoBody, drawn |-> NoDraws]

Init ==
    /\ worker = [w \in Workers |-> Idle]
    /\ last = NoResponse
    /\ nresp = [i \in Ids |-> 0]
    /\ arrived = 0
    /\ wall = create_time

\* ---- the environment -----------------------------------------------------
Asleep(w) == worker[w].id # 0 /\ worker[w].slept < worker[w].dur

\* Time passes: every blocked worker sleeps on.  The clock reading saturates
\* at MaxTime.
Tick ==
    /\ wall < MaxTime \/ \E w \in Workers : Asleep(w)
    /\ wall' = IF wall + ClockStep > MaxTime THEN MaxTime ELSE wall + ClockStep
    /\ worker' = [w \in Workers |->
                    IF Asleep(w)
                    THEN [worker[w] EXCEPT !.slept = @ + ClockStep]
                    ELSE worker[w]]
    /\ UNCHANGED <<last, nresp, arrived>>

\* The system sets its wall clock back (an operator, an NTP step); sleeps
\* run on the monotonic clock and are not affected.  The model follows
\* corrections that stay after the creation of the process.
ClockSetBack ==
    /\ wall - ClockStep >= create_time
    /\ wall' = wall - ClockStep
    /\ UNCHANGED <<worker, last, nresp, arrived>>

\* ---- a worker's steps ----------------------------------------------------
\* The next request to arrive, for path p under method m.
Req(p, m) == [id |-> arrived + 1, path |-> p, method |-> m]

\* Request r, the next to arrive, is handed to its thread w.
Accept(w, r) ==
    /\ arrived < MaxRequests
    /\ r.id = arrived + 1
    /\ w = r.id
    /\ worker[w].id = 0
    /\ arrived' = arrived + 1

\* The response to request r is written.
Reply(r, h, result, drawn) ==
    /\ last' = make_response(r, h, result, drawn)
    /\ nresp' = [nresp EXCEPT ![r.id] = @ + 1]
    /\ UNCHANGED wall

\* Worker w answers request r in the step that accepted it.
Serve(w, r, h, result, drawn) ==
    /\ Reply(r, h, result, drawn)
    /\ UNCHANGED worker

\* Worker w blocks in the view of request r for dur.
Block(w, r, dur) ==
    /\ worker' = [worker EXCEPT ![w] =
                    [id |-> r.id, path |-> r.path, method |-> r.method,
                     dur |-> dur, slept |-> 0]]
    /\ last' = NoResponse
    /\ UNCHANGED <<nresp, wall>>

\* The worker woken by the first tick, whatever the duration asked for.
Woken_early(w, h) ==
    /\ worker[w].id # 0
    /\ url_map[worker[w].path] = h
    /\ worker[w].slept > 0

\* Whether worker w, blocked in view h, has slept its whole duration.
Woken(w, h) ==
    /\ worker[w].id # 0
    /\ url_map[worker[w].path] = h
    /\ worker[w].slept >= worker[w].dur

\* A view that failed is called again, from its blocking call on.
Finish_retry(w, h, result) ==
    IF result.threw
    THEN /\ worker' = [worker EXCEPT ![w].slept = 0]
         /\ last' = NoResponse
         /\ UNCHANGED <<nresp, arrived, wall>>
    ELSE /\ last' = make_response(worker[w], h, result,
                                  Drawn(worker[w].dur, worker[w].slept, -1))
         /\ nresp' = [nresp EXCEPT ![worker[w].id] = @ + 1]
         /\ worker' = [worker EXCEPT ![w] = Idle]
         /\ UNCHANGED <<arrived, wall>>

\* Worker w, back from its sleep, finishes the view and answers.
Finish(w, h, result) ==
    /\ Reply(worker[w], h, result, Drawn(worker[w].dur, worker[w].slept, -1))
    /\ worker' = [worker EXCEPT ![w] = Idle]
    /\ UNCHANGED arrived

\* No rule matches the path, or the rule does not allow the method: the
\* routing exception goes to the Exception handler.
routing_error(w, r) ==
    /\ Accept(w, r)
    /\ r.path \notin DOMAIN url_map \/ r.method \notin RuleMethods
    /\ Serve(w, r, "",
             Raise(IF r.path \notin DOMAIN url_map
                   THEN NotFound ELSE MethodNotAllowed),
             NoDraws)

\* OPTIONS on a routed path: Flask's automatic answer, no view is called.
automatic_options(w, r) ==
    /\ Accept(w, r)
    /\ r.path \in DOMAIN url_map
    /\ r.method = "OPTIONS"
    /\ Serve(w, r, "", Return(NoBody), NoDraws)

home(w, r) ==
    /\ Accept(w, r)
    /\ Routed(r, "home")
    /\ Serve(w, r, "home", home_view(time), NoDraws)

health(w, r) ==
    /\ Accept(w, r)
    /\ Routed(r, "health")
    /\ \E sensorOk \in BOOLEAN, mem \in Sampled(0, 100) :
          Serve(w, r, "health", health_view(time, sensorOk, mem), NoDraws)

error_endpoint(w, r) ==
    /\ Accept(w, r)
    /\ Routed(r, "error_endpoint")
    /\ \E x \in random :
          Serve(w, r, "error_endpoint", error_view(x), Drawn(0, 0, x))

get_data_sleep(w, r) ==
    /\ Accept(w, r)
    /\ Routed(r, "get_data")
    /\ \E d \in uniform(DataSleepMin, DataSleepMax) : Block(w, r, d)

get_data(w) ==
    /\ Woken(w, "get_data")
    /\ \E c \in CustomersRange, s \in SalesRange, p \in ProfitRange :
          Finish(w, "get_data", get_data_view(time, c, s, p))

slow_endpoint_sleep(w, r) ==
    /\ Accept(w, r)
    /\ Routed(r, "slow_endpoint")
    /\ \E d \in uniform(SlowSleepMin, SlowSleepMax) : Block(w, r, d)

slow_endpoint(w) ==
    /\ Woken(w, "slow_endpoint")
    /\ Finish(w, "slow_endpoint", slow_view(time))

system_info_sample(w, r) ==
    /\ Accept(w, r)
    /\ Routed(r, "system_info")
    /\ Block(w, r, CpuInterval)

system_info(w) ==
    /\ Woken(w, "system_info")
    /\ \E sensorOk \in BOOLEAN, cpu \in Sampled(0, 100) :
          Finish(w, "system_info", system_view(time, sensorOk, cpu))

\* Worker w comes back from a blocking call.
Resume(w) == get_data(w) \/ slow_endpoint(w) \/ system_info(w)

WorkerStep(w) ==
    \/ \E p \in Paths, m \in Methods : routing_error(w, Req(p, m))
    \/ \E p \in Paths, m \in Methods : automatic_options(w, Req(p, m))
    \/ \E p \in Paths, m \in Methods : home(w, Req(p, m))
    \/ \E p \in Paths, m \in Methods : health(w, Req(p, m))
    \/ \E p \in Paths, m \in Methods : error_endpoint(w, Req(p, m))
    \/ \E p \in Paths, m \in Methods : get_data_sleep(w, Req(p, m))
    \/ get_data(w)
    \/ \E p \in Paths, m \in Methods : slow_endpoint_sleep(w, Req(p, m))
    \/ slow_endpoint(w)
    \/ \E p \in Paths, m \in Methods : system_info_sample(w, Req(p, m))
    \/ system_info(w)

Next ==
    \/ Tick
    \/ ClockSetBack
    \/ \E w \in Workers : WorkerStep(w)

Spec == Init /\ [][Next]_vars

\* Resume steps and the passing of time are what the scheduler owes a blocked
\* worker: a runnable thread is eventually run, and time does not stop.
FairSpec ==
    /\ Spec
    /\ WF_vars(Tick)
    /\ \A w \in Workers : WF_vars(Resume(w))

\* ---- properties ----------------------------------------------------------
\* The latest step wrote a response, and view function h was called for it.
Called(h) == last.id # 0 /\ last.handler = h

\* C1: whenever one of the six view functions raises, the response has status
\* 500 and a body with the single field error holding the message raised;
\* the request gets that one response and is not handled again.
C1_HandlerErrorIs500 ==
    (last.id # 0 /\ last.handler # "" /\ last.threw) =>
        /\ last.status = 500
        /\ DOMAIN last.body = {"error"}
        /\ last.body.error = last.msg
        /\ nresp[last.id] = 1
        /\ worker[last.id].id = 0

\* A view raised after blocking (system_info, sensor failure) and the request
\* was answered.
C1_Witness ==
    /\ Called("system_info")
    /\ last.threw
    /\ last.drawn.slept >= CpuInterval
    /\ last.status = 500

\* C2 as claimed: /api/error answers 500 with {"error": "Random error for
\* testing"} or 200 with the success message.
C2_AsClaimed ==
    Called("error_endpoint") =>
        \/ /\ last.status = 500
           /\ DOMAIN last.body = {"error"}
           /\ last.body.error = "Random error for testing"
        \/ /\ last.status = 200
           /\ DOMAIN last.body = {"message"}
           /\ last.body.message = "Success from Flask!"

\* C2, amended: every request dispatched to error_endpoint ends in exactly one
\* of two outcomes: 500 with {"error": "Random error for testing from Flask"},
\* or 200 with {"message": "Success from Flask!"}.
C2_TwoOutcomes ==
    Called("error_endpoint") =>
        \/ /\ last.threw
           /\ last.status = 500
           /\ DOMAIN last.body = {"error"}
           /\ last.body.error = "Random error for testing from Flask"
        \/ /\ ~last.threw
           /\ last.status = 200
           /\ DOMAIN last.body = {"message"}
           /\ last.body.message = "Success from Flask!"

\* /api/error answered 500 for a request that followed one answered before.
C2_Witness ==
    /\ Called("error_endpoint")
    /\ last.status = 500
    /\ last.id > 1

\* C3: a 200 response of /api/data holds customers in [100,1000], sales in
\* [50,500] and profit in [1000,10000], and is written only after the sleep
\* drawn for the request (0.1 s to 0.5 s) was slept in full.
C3_DataInRange ==
    (Called("get_data") /\ last.status = 200) =>
        /\ last.body.customers \in 100..1000
        /\ last.body.sales \in 50..500
        /\ last.body.profit \in 1000..10000
        /\ last.drawn.dur \in DataSleepMin..DataSleepMax
        /\ last.drawn.slept >= last.drawn.dur

\* A response mixing the low end of one range with the high ends of the other
\* two, for a request that followed another.
C3_Witness ==
    /\ Called("get_data")
    /\ last.status = 200
    /\ last.body.customers = 100
    /\ last.body.sales = 500
    /\ last.body.profit = 10000
    /\ last.id > 1

\* C4: a request dispatched to home is answered 200 with a non-empty message,
\* a timestamp and the project identifier "cliente3"; home never raises.
C4_HomeIs200 ==
    (last.id # 0 /\ last.path = "/" /\ last.method \in ViewMethods) =>
        /\ last.handler = "home"
        /\ ~last.threw
        /\ last.status = 200
        /\ DOMAIN last.body = {"message", "timestamp", "project"}
        /\ last.body.message # ""
        /\ last.body.project = "cliente3"

\* home answered a request that arrived while an earlier one was still being
\* served.
C4_Witness ==
    /\ Called("home")
    /\ last.status = 200
    /\ last.id > 1
    /\ worker[1].id = 1

\* C6: a /api/slow response is written only after the latency drawn for that
\* request (1 s to 3 s) was slept in full, and a worker that has slept its
\* latency can answer whatever the other workers are doing.
C6_SlowIndependent ==
    /\ Called("slow_endpoint") =>
          /\ last.drawn.dur \in SlowSleepMin..SlowSleepMax
          /\ last.drawn.slept >= last.drawn.dur
    /\ \A w \in Workers :
          (/\ worker[w].id # 0
           /\ worker[w].path = "/api/slow"
           /\ worker[w].slept >= worker[w].dur) => ENABLED slow_endpoint(w)
    /\ \A w \in Workers : worker[w].id \in {0, w}

\* The second /api/slow request of a burst is answered while the first, which
\* drew the longer latency, is still asleep.
C6_Witness ==
    /\ Called("slow_endpoint")
    /\ last.id = 2
    /\ worker[1].id = 1
    /\ worker[1].path = "/api/slow"
    /\ worker[1].slept < worker[1].dur
    /\ last.drawn.dur < worker[1].dur

\* C7 as claimed: the uptime of every successful /health response is
\* non-negative, and not less than that of the successful /health response
\* before it.
HealthOk(resp) == resp.id # 0 /\ resp.handler = "health" /\ resp.status = 200
C7_AsClaimed ==
    [][HealthOk(last') =>
          /\ last'.body.uptime >= 0
          /\ (HealthOk(last) /\ last.id < last'.id) =>
                last'.body.uptime >= last.body.uptime]_vars

\* C8: the draws for which error_endpoint raises, and those for which it
\* returns.
ErrorDraws == {r \in random : error_view(r).threw}
SuccessDraws == {r \in random : ~error_view(r).threw}

\* C8 as claimed: one draw per request decides, and exactly half of the
\* equally likely draws raise and exactly half succeed.
C8_AsClaimed ==
    Called("error_endpoint") =>
        /\ last.threw <=> 2 * last.drawn.draw > RandDenom
        /\ 2 * Cardinality(ErrorDraws) = Cardinality(random)
        /\ 2 * Cardinality(SuccessDraws) = Cardinality(random)

\* C8, amended: one draw per request decides, raising exactly when the draw
\* is greater than 0.5; the draw 0.5 itself succeeds, so one draw fewer than
\* half raise and one more than half succeed.
C8_StrictSplit ==
    Called("error_endpoint") =>
        /\ last.drawn.draw \in random
        /\ last.threw <=> 2 * last.drawn.draw > RandDenom
        /\ last.status = IF 2 * last.drawn.draw > RandDenom THEN 500 ELSE 200
        /\ 2 * Cardinality(ErrorDraws) = Cardinality(random) - 2
        /\ 2 * Cardinality(SuccessDraws) = Cardinality(random) + 2

\* The draw 0.5 itself: the request succeeds.
C8_Witness ==
    /\ Called("error_endpoint")
    /\ 2 * last.drawn.draw = RandDenom
    /\ last.status = 200

C10_EveryRequestAnswered ==
    /\ \A i \in Ids : [](arrived >= i => <>(nresp[i] = 1 /\ worker[i].id = 0))
    /\ [](\A i \in Ids :
            /\ nresp[i] <= 1
            /\ (arrived < i => nresp[i] = 0)
            /\ (worker[i].id # 0 => nresp[i] = 0)
            /\ worker[i].dur <= SlowSleepMax
            /\ worker[i].slept < worker[i].dur + ClockStep)

\* Every request of the run was blocked first and answered since.
C10_Witness ==
    /\ arrived = MaxRequests
    /\ \A i \in Ids : nresp[i] = 1 /\ worker[i].id = 0
    /\ last.drawn.slept >= SlowSleepMax

====
